---- MODULE Spec2Model ----
(***************************************************************************)
(* Model of server.mjs: the POST /create-link workflow of the Peanut link  *)
(* generator (validation, amount conversion, prepare, sequential sends,    *)
(* link resolution, response shaping) together with the middleware that    *)
(* runs in front of it.                                                     *)
(*                                                                         *)
(* Strings that the code inspects character by character are sequences of  *)
(* one-character strings.  A JavaScript number is represented by the       *)
(* digits of its shortest decimal representation: sign, the significant    *)
(* digits d1..dk (d1 # 0, dk # 0) and the exponent n of ECMAScript's       *)
(* Number::toString, so that its value is 0.d1..dk * 10^n.                 *)
(***************************************************************************)
EXTENDS Integers, Sequences, FiniteSets, TLC

\* ------------------------------------------------------------------ bounds
\* Longest list of unsigned transactions prepare returns in the model.
MaxTxs == 2
\* Most significant digits of an amount in the conversion specification.
MaxDigits == 2
\* Exponents n of the amounts of the conversion specification: -MaxExp..MaxExp+12
MaxExp == 10

\* Most requests counted by the limiter in the limiter specification.
MaxHits == 102

\* --------------------------------------------------------------- constants
\* max: 100 requests per window
RateMax == 100
\* const tokenDecimals = 9
tokenDecimals == 9
\* CHAIN_ID defaults to Sepolia
CHAIN_ID == 11155111
\* Number::toString switches to exponential notation outside -6 < n <= 21
ExpNotationAbove == 21
ExpNotationBelow == 6

\* -------------------------------------------------------------- characters
DigitChars == <<"0", "1", "2", "3", "4", "5", "6", "7", "8", "9">>

DigitChar(d) == DigitChars[d + 1]

IsDigitChar(c) == \E i \in 1..Len(DigitChars) : DigitChars[i] = c

Zeros(m) == [i \in 1..m |-> "0"]

DigitsToChars(ds) == [i \in 1..Len(ds) |-> DigitChar(ds[i])]

RECURSIVE NatToChars(_)
\* decimal digits of a natural number
NatToChars(m) == IF m < 10 THEN <<DigitChar(m)>>
                 ELSE Append(NatToChars(m \div 10), DigitChar(m % 10))

Abs(i) == IF i < 0 THEN -i ELSE i

\* ------------------------------------------------------- amount.toString()
\* Number::toString(x), radix 10, for a finite number x.
NumberToString(x) ==
  LET k == Len(x.digits)
      n == x.n
      s == DigitsToChars(x.digits)
      e == n - 1
      body ==
        IF k <= n /\ n <= ExpNotationAbove
          THEN s \o Zeros(n - k)
        ELSE IF 0 < n /\ n <= ExpNotationAbove
          THEN SubSeq(s, 1, n) \o <<".">> \o SubSeq(s, n + 1, k)
        ELSE IF -ExpNotationBelow < n /\ n <= 0
          THEN <<"0", ".">> \o Zeros(-n) \o s
        ELSE (IF k = 1 THEN s ELSE <<s[1], ".">> \o SubSeq(s, 2, k))
               \o <<"e", (IF e < 0 THEN "-" ELSE "+")>> \o NatToChars(Abs(e))
  IN IF x.sign = 0 THEN <<"0">>
     ELSE IF x.sign < 0 THEN <<"-">> \o body
     ELSE body

\* ------------------------------------------------- utils.parseUnits(str, d)
\* index of the first "." of str, 0 when there is none
FirstDot(str) ==
  IF \E i \in 1..Len(str) : str[i] = "."
    THEN CHOOSE i \in 1..Len(str) : str[i] = "." /\ \A j \in 1..(i - 1) : str[j] # "."
    ELSE 0

DotCount(str) == Cardinality({i \in 1..Len(str) : str[i] = "."})

RECURSIVE TrimTrailingZeros(_)
TrimTrailingZeros(str) ==
  IF Len(str) > 0 /\ str[Len(str)] = "0"
    THEN TrimTrailingZeros(SubSeq(str, 1, Len(str) - 1))
    ELSE str

RECURSIVE TrimLeadingZeros(_)
\* the canonical decimal digits of the integer a digit string denotes
TrimLeadingZeros(str) ==
  IF Len(str) > 1 /\ str[1] = "0"
    THEN TrimLeadingZeros(SubSeq(str, 2, Len(str)))
    ELSE str

\* the regular expression /^-?[0-9.]+$/
MatchesDecimal(str) ==
  LET from == IF Len(str) > 0 /\ str[1] = "-" THEN 2 ELSE 1
  IN /\ Len(str) >= from
     /\ \A i \in from..Len(str) : IsDigitChar(str[i]) \/ str[i] = "."

Thrown(code) == [ok |-> FALSE, code |-> code, value |-> <<>>, negative |-> FALSE]

\* ethers v5 parseUnits -> parseFixed: a BigNumber (its decimal digits and its
\* sign) or a thrown error with its code.
parseUnits(str, decimals) ==
  IF ~MatchesDecimal(str) THEN Thrown("INVALID_ARGUMENT")
  ELSE
    LET negative == str[1] = "-"
        v        == IF negative THEN SubSeq(str, 2, Len(str)) ELSE str
        dot      == FirstDot(v)
        whole0   == IF dot = 0 THEN v ELSE SubSeq(v, 1, dot - 1)
        frac0    == IF dot = 0 THEN <<>> ELSE SubSeq(v, dot + 1, Len(v))
        whole    == IF whole0 = <<>> THEN <<"0">> ELSE whole0
        fraction == TrimTrailingZeros(IF frac0 = <<>> THEN <<"0">> ELSE frac0)
    IN IF v = <<".">> THEN Thrown("INVALID_ARGUMENT")
       ELSE IF DotCount(v) > 1 THEN Thrown("INVALID_ARGUMENT")
       ELSE IF Len(fraction) > decimals THEN Thrown("NUMERIC_FAULT")
       ELSE [ok       |-> TRUE,
             code     |-> "",
             value    |-> TrimLeadingZeros(whole \o fraction \o Zeros(decimals - Len(fraction))),
             negative |-> negative]

\* const tokenAmount = utils.parseUnits(amount.toString(), tokenDecimals)
ToBaseUnits(amount) == parseUnits(NumberToString(amount), tokenDecimals)


\* ------------------------------------------------------------ JavaScript values
NoValue == <<>>

Some(v) == <<v>>

JsUndefined == [type |-> "undefined"]

JsString(str) == [type |-> "string", str |-> str]

JsNumber(x) == [type |-> "number", num |-> x]

Zero == [sign |-> 0, digits |-> <<>>, n |-> 0]

\* the one-digit integers 0..9 as numbers
IntNum(i) == IF i = 0 THEN Zero ELSE [sign |-> 1, digits |-> <<i>>, n |-> 1]

Includes(list, v) == \E i \in 1..Len(list) : list[i] = v

\* ------------------------------------------------------------- configuration
Reqs == {"A", "B"}

API_KEY == "configured-key"

WalletAddress == "0xwallet"

\* x-api-key header: missing, wrong, right
ApiKeyHeaders == {NoValue, Some("wrong-key"), Some(API_KEY)}

OnePointFive == [sign |-> 1, digits |-> <<1, 5>>, n |-> 1]

MinusOnePointFive == [sign |-> -1, digits |-> <<1, 5>>, n |-> 1]

OneEMinusSeven == [sign |-> 1, digits |-> <<1>>, n |-> -6]

\* values of body.amount
Amounts ==
  { JsUndefined, JsString(<<"1", ".", "5">>), JsNumber(Zero),
    JsNumber(MinusOnePointFive), JsNumber(OnePointFive), JsNumber(OneEMinusSeven) }

\* values of body.tokenType: omitted, the string "0", the least and the
\* greatest valid type, and the first invalid one
TokenTypes ==
  { JsUndefined, JsString(<<"0">>) } \cup { JsNumber(IntNum(i)) : i \in {0, 3, 4} }

MalformedBody == [malformed |-> TRUE, amount |-> JsUndefined, tokenType |-> JsUndefined]

Bodies ==
  {MalformedBody} \cup
  [malformed : {FALSE}, amount : Amounts, tokenType : TokenTypes]

\* process.env.MNEMONIC: how many words trim().split(' ') finds in it (0 when
\* it is absent) and whether Wallet.fromMnemonic accepts it
MnemonicConfigs ==
  { [words |-> 0, valid |-> FALSE], [words |-> 11, valid |-> FALSE],
    [words |-> 12, valid |-> FALSE], [words |-> 12, valid |-> TRUE],
    [words |-> 24, valid |-> TRUE] }

\* peanut.getRandomString(16)
Secrets == {"pw1", "pw2"}

\* error.code of a rejected external call
ErrorCodes == {"INSUFFICIENT_FUNDS", "NETWORK_ERROR"}

\* convertedTx.value as peanutToEthersV5Tx leaves it
TxValues == {"BigNumber", "negative BigNumber", "undefined"}

\* the lists of links getLinksFromTx may return: none, one, two
LinkLists == {<<>>, <<"link1">>, <<"link2", "link1">>}

\* what getLinksFromTx resolves to: undefined, an object without links, an
\* object with a list of links
ResolveResults ==
  {NoValue, Some([links |-> NoValue])} \cup { Some([links |-> Some(ls)]) : ls \in LinkLists }

UnsignedTxs(r, n) == [i \in 1..n |-> [req |-> r, idx |-> i]]

\* what prepareDepositTxs resolves to: null, an object without unsignedTxs, an
\* object with 0..MaxTxs unsigned transactions
PrepareResults(r) ==
  {NoValue, Some([unsignedTxs |-> NoValue])} \cup
  { Some([unsignedTxs |-> Some(UnsignedTxs(r, n))]) : n \in 0..MaxTxs }

\* ---------------------------------------------------------------------- state
VARIABLES
  pc,                   \* where each request is in the middleware chain / handler
  req,                  \* the request: headers and parsed body
  linkDetails,          \* const linkDetails of the handler
  password,             \* const password
  preparedTransactions, \* const preparedTransactions
  transactionHashes,    \* const transactionHashes
  trace,                \* the external calls a request made and what came back
  responses,            \* the responses written for a request
  broadcast,            \* the transactions the wallet broadcast, in order
  MNEMONIC,             \* process.env.MNEMONIC
  server,               \* the process: loading, initializeWallet, listening, exited
  wallets,              \* how many wallets the process has created
  hits,                 \* the limiter's count of requests in the current window
  healthResponse        \* the response to the latest GET /health

startupVars == <<MNEMONIC, server, wallets>>

limiterVars == <<hits, healthResponse>>

vars == <<pc, req, linkDetails, password, preparedTransactions, transactionHashes,
          trace, responses, broadcast, MNEMONIC, server, wallets, hits, healthResponse>>

Call(op, arg) == [ev |-> "call", op |-> op, arg |-> arg]

Return(op, val) == [ev |-> "return", op |-> op, val |-> val]

Throw(op, code) == [ev |-> "throw", op |-> op, code |-> code]

Json(status, body) == [status |-> status, body |-> body]

\* no request has arrived
NoRequests ==
  /\ pc = [r \in Reqs |-> "idle"]
  /\ req = [r \in Reqs |-> NoValue]
  /\ linkDetails = [r \in Reqs |-> NoValue]
  /\ password = [r \in Reqs |-> NoValue]
  /\ preparedTransactions = [r \in Reqs |-> NoValue]
  /\ transactionHashes = [r \in Reqs |-> <<>>]
  /\ trace = [r \in Reqs |-> <<>>]
  /\ responses = [r \in Reqs |-> <<>>]
  /\ broadcast = <<>>

\* the process has started listening with its wallet
Listening ==
  /\ MNEMONIC = [words |-> 12, valid |-> TRUE]
  /\ server = "listening"
  /\ wallets = 1

\* the process starts with the environment it was given
Init ==
  /\ NoRequests
  /\ MNEMONIC \in MnemonicConfigs
  /\ server = "loading"
  /\ wallets = 0
  /\ hits = 0
  /\ healthResponse = NoValue


\* ------------------------------------------------------------------ responses
GlobalErrorResponse == Json(500, [error |-> "Internal server error."])

\* the limiter's answer: the configured message sent as plain text
TooManyRequestsResponse ==
  [status |-> 429,
   body   |-> [text |-> "Too many requests from this IP, please try again after 15 minutes."]]

HealthResponse == Json(200, [status |-> "Server is running."])

UnauthorizedResponse == Json(401, [error |-> "Unauthorized: Invalid or missing API key."])

InvalidAmountResponse == Json(400, [error |-> "Invalid or missing \"amount\" in request body."])

InvalidTokenTypeResponse ==
  Json(400, [error |-> "Invalid \"tokenType\". Valid types are 0, 1, 2, 3."])

PreparationFailedResponse == Json(500, [error |-> "Failed to prepare deposit transactions."])

LinkResolutionFailedResponse ==
  Json(500, [error |-> "Failed to retrieve links from transaction."])

InsufficientFundsResponse ==
  Json(400, [error |-> "Insufficient funds in the wallet to complete the transaction."])

FailedResponse == Json(500, [error |-> "Failed to create Peanut Link."])

\* a catch block that answers with the text of the error it caught
CatchResponseLeaky(code) == Json(500, [error |-> code])

\* a catch block without the INSUFFICIENT_FUNDS case
CatchResponseGeneric(code) == FailedResponse

\* the catch block: the response for a thrown error with this error.code
CatchResponse(code) ==
  IF code = "INSUFFICIENT_FUNDS" THEN InsufficientFundsResponse ELSE FailedResponse

SuccessResponse(link, hashes) == Json(200, [link |-> link, txHashes |-> hashes])

\* ------------------------------------------------------- the handler's tests
\* a check for a missing phrase only
MnemonicRejectedAbsentOnly(m) == m.words = 0

\* !MNEMONIC || MNEMONIC.trim().split(' ').length !== 12
MnemonicRejected(m) == m.words = 0 \/ m.words # 12

\* the limiter throttles a request when the count, this request included,
\* exceeds max
Throttled(count) == count > RateMax

\* apiKey && apiKey === process.env.API_KEY
ApiKeyOk(header) == header # NoValue /\ header[1] # "" /\ header[1] = API_KEY

\* the test with < for <=: zero passes
InvalidAmountZeroAccepted(amount) == amount.type # "number" \/ amount.num.sign < 0

\* typeof amount !== 'number' || amount <= 0
InvalidAmount(amount) == amount.type # "number" \/ amount.num.sign <= 0

validTokenTypes == <<JsNumber(IntNum(0)), JsNumber(IntNum(1)), JsNumber(IntNum(2)), JsNumber(IntNum(3))>>

\* a default of 1 for an omitted tokenType
TokenTypeOrDefaultOne(tokenType) ==
  IF tokenType # JsUndefined THEN tokenType ELSE JsNumber(IntNum(1))

\* tokenType !== undefined ? tokenType : 0
TokenTypeOrDefault(tokenType) ==
  IF tokenType # JsUndefined THEN tokenType ELSE JsNumber(IntNum(0))

\* the test without the length check: an empty list passes
PreparationFailedNoLength(prepared) ==
  \/ prepared = NoValue
  \/ prepared[1].unsignedTxs = NoValue

\* !preparedTransactions || !preparedTransactions.unsignedTxs || unsignedTxs.length === 0
PreparationFailed(prepared) ==
  \/ prepared = NoValue
  \/ prepared[1].unsignedTxs = NoValue
  \/ Len(prepared[1].unsignedTxs[1]) = 0

\* preparedTransactions.unsignedTxs as the for-of loop reads it
TxsOf(prepared) ==
  IF prepared = NoValue \/ prepared[1].unsignedTxs = NoValue
    THEN <<>> ELSE prepared[1].unsignedTxs[1]

BigNumberIsBigNumberAnything(value) == TRUE

BigNumberIsBigNumber(value) == value \in {"BigNumber", "negative BigNumber"}

\* the call r awaits
AwaitedCall(r) == trace[r][Len(trace[r])]

\* wallet.sendTransaction cannot encode a negative value and rejects
Encodable(value) == value = "BigNumber"

\* sends that are not awaited: every remaining transaction is sent at once
SendsStartedAll(txs, i) == SubSeq(txs, i, Len(txs))

\* the sends started by iteration i of the loop before the handler suspends:
\* one, awaited
SendsStarted(txs, i) == <<txs[i]>>

\* the first hash for the last
LastHashFirst(hashes) == IF Len(hashes) = 0 THEN NoValue ELSE Some(hashes[1])

\* transactionHashes[transactionHashes.length - 1]
LastHash(hashes) == IF Len(hashes) = 0 THEN NoValue ELSE Some(hashes[Len(hashes)])

\* the test without the length check: an empty list passes
NoLinksAbsentOnly(links) == links = NoValue

\* !links || links.length === 0
NoLinks(links) == links = NoValue \/ Len(links[1]) = 0

\* the last link for the first
GeneratedLinkLast(links) == links[1][Len(links[1])]

\* links[0], which is undefined for an empty list
GeneratedLink(links) == IF Len(links[1]) = 0 THEN "undefined" ELSE links[1][1]

\* -------------------------------------------------------------------- actions
Respond(r, resp) == responses' = [responses EXCEPT ![r] = Append(@, resp)]

\* a path that answers twice
FinishTwice(r, resp) ==
  /\ responses' = [responses EXCEPT ![r] = @ \o <<resp, resp>>]
  /\ pc' = [pc EXCEPT ![r] = "done"]

\* a path that ends without an answer
FinishSilent(r, resp) ==
  /\ UNCHANGED responses
  /\ pc' = [pc EXCEPT ![r] = "done"]

\* the response is written and the request is over
Finish(r, resp) ==
  /\ Respond(r, resp)
  /\ pc' = [pc EXCEPT ![r] = "done"]

\* the module body up to the wallet: a missing or malformed MNEMONIC ends the
\* process
LoadModule ==
  /\ server = "loading"
  /\ server' = IF MnemonicRejected(MNEMONIC) THEN "exited" ELSE "initializeWallet"
  /\ UNCHANGED <<pc, req, linkDetails, password, preparedTransactions, transactionHashes,
                 trace, responses, broadcast, MNEMONIC, wallets, limiterVars>>

\* initializeWallet and, when it returns the wallet, the rest of the module
\* body down to app.listen; any failure in it ends the process
InitializeWallet ==
  /\ server = "initializeWallet"
  /\ \E networkOk \in BOOLEAN :
       IF networkOk /\ MNEMONIC.valid
         THEN /\ wallets' = wallets + 1
              /\ server' = "listening"
         ELSE /\ server' = "exited"
              /\ UNCHANGED wallets
  /\ UNCHANGED <<pc, req, linkDetails, password, preparedTransactions, transactionHashes,
                 trace, responses, broadcast, MNEMONIC, limiterVars>>

\* express.json() and the limiter: a POST /create-link arrives and its body is
\* parsed; a body that does not parse goes to the global error handler; a body
\* that parses is counted by the limiter, which lets it through or throttles it
ExpressJson(r) ==
  /\ server = "listening"
  /\ pc[r] = "idle"
  /\ \E h \in ApiKeyHeaders, b \in Bodies :
       /\ req' = [req EXCEPT ![r] = Some([headers |-> [xApiKey |-> h], body |-> b])]
       /\ IF b.malformed
            THEN /\ Finish(r, GlobalErrorResponse)
                 /\ UNCHANGED hits
            ELSE /\ hits' = hits + 1
                 /\ IF Throttled(hits + 1)
                      THEN Finish(r, TooManyRequestsResponse)
                      ELSE /\ pc' = [pc EXCEPT ![r] = "verifyApiKey"]
                           /\ UNCHANGED responses
  /\ UNCHANGED <<linkDetails, password, preparedTransactions, transactionHashes,
                 trace, broadcast, startupVars, healthResponse>>

\* GET /health: counted by the limiter like every request, then answered
Health ==
  /\ server = "listening"
  /\ hits < MaxHits
  /\ hits' = hits + 1
  /\ healthResponse' = Some(IF Throttled(hits + 1) THEN TooManyRequestsResponse
                                                  ELSE HealthResponse)
  /\ UNCHANGED <<pc, req, linkDetails, password, preparedTransactions, transactionHashes,
                 trace, responses, broadcast, startupVars>>

\* windowMs has passed: the limiter's count starts again
WindowReset ==
  /\ hits > 0
  /\ hits' = 0
  /\ UNCHANGED <<pc, req, linkDetails, password, preparedTransactions, transactionHashes,
                 trace, responses, broadcast, startupVars, healthResponse>>

VerifyApiKey(r) ==
  /\ pc[r] = "verifyApiKey"
  /\ IF ApiKeyOk(req[r][1].headers.xApiKey)
       THEN /\ pc' = [pc EXCEPT ![r] = "createLink"]
            /\ UNCHANGED responses
       ELSE Finish(r, UnauthorizedResponse)
  /\ UNCHANGED <<req, linkDetails, password, preparedTransactions, transactionHashes,
                 trace, broadcast>>
  /\ UNCHANGED <<startupVars, limiterVars>>

\* the handler up to its first await: validation, conversion, linkDetails,
\* the call of getRandomString
CreateLinkStart(r) ==
  /\ pc[r] = "createLink"
  /\ LET amount     == req[r][1].body.amount
         token_Type == TokenTypeOrDefault(req[r][1].body.tokenType)
     IN IF InvalidAmount(amount)
          THEN /\ Finish(r, InvalidAmountResponse)
               /\ UNCHANGED <<linkDetails, trace>>
        ELSE IF ~Includes(validTokenTypes, token_Type)
          THEN /\ Finish(r, InvalidTokenTypeResponse)
               /\ UNCHANGED <<linkDetails, trace>>
        ELSE LET tokenAmount == ToBaseUnits(amount.num)
             IN IF ~tokenAmount.ok
                  THEN /\ Finish(r, CatchResponse(tokenAmount.code))
                       /\ UNCHANGED <<linkDetails, trace>>
                  ELSE /\ linkDetails' =
                            [linkDetails EXCEPT ![r] =
                               Some([chainId       |-> CHAIN_ID,
                                     tokenAmount   |-> tokenAmount.value,
                                     tokenType     |-> token_Type,
                                     tokenDecimals |-> tokenDecimals])]
                       /\ trace' = [trace EXCEPT ![r] = Append(@, Call("getRandomString", 16))]
                       /\ pc' = [pc EXCEPT ![r] = "awaitRandomString"]
                       /\ UNCHANGED responses
  /\ UNCHANGED <<req, password, preparedTransactions, transactionHashes, broadcast>>
  /\ UNCHANGED <<startupVars, limiterVars>>

\* a rejected send that is logged and skipped: the handler carries on to
\* getLinksFromTx with the hashes it has
RejectedSendSkipped(r, op) ==
  \E code \in ErrorCodes :
    IF op = "sendTransaction"
      THEN /\ trace' = [trace EXCEPT ![r] =
                  @ \o <<Throw(op, code),
                         Call("getLinksFromTx",
                              [linkDetails |-> linkDetails[r][1],
                               passwords   |-> <<password[r][1]>>,
                               txHash      |-> NoValue])>>]
           /\ pc' = [pc EXCEPT ![r] = "awaitResolve"]
           /\ UNCHANGED responses
      ELSE /\ trace' = [trace EXCEPT ![r] = Append(@, Throw(op, code))]
           /\ Finish(r, CatchResponse(code))

\* an awaited external call rejects: the catch block answers
Rejected(r, op) ==
  \E code \in ErrorCodes :
    /\ trace' = [trace EXCEPT ![r] = Append(@, Throw(op, code))]
    /\ Finish(r, CatchResponse(code))

\* getRandomString resolves or rejects; on a password, prepareDepositTxs is called
RandomStringReturn(r) ==
  /\ pc[r] = "awaitRandomString"
  /\ \/ \E pw \in Secrets :
          /\ password' = [password EXCEPT ![r] = Some(pw)]
          /\ trace' = [trace EXCEPT ![r] =
                 @ \o <<Return("getRandomString", pw),
                        Call("prepareDepositTxs",
                             [address     |-> WalletAddress,
                              linkDetails |-> linkDetails[r][1],
                              passwords   |-> <<pw>>])>>]
          /\ pc' = [pc EXCEPT ![r] = "awaitPrepare"]
          /\ UNCHANGED responses
     \/ /\ Rejected(r, "getRandomString")
        /\ UNCHANGED password
  /\ UNCHANGED <<req, linkDetails, preparedTransactions, transactionHashes, broadcast>>
  /\ UNCHANGED <<startupVars, limiterVars>>

\* a resolution that asks with a password of its own
GetLinksFromTxArgsOtherPassword(link_Details, pw, hashes) ==
  [linkDetails |-> link_Details,
   passwords   |-> <<CHOOSE other \in Secrets : other # pw>>,
   txHash      |-> LastHash(hashes)]

\* a password kept in one place for all requests: where A has one, it is used
GetLinksFromTxArgsSharedPassword(link_Details, pw, hashes) ==
  [linkDetails |-> link_Details,
   passwords   |-> <<IF password["A"] # NoValue THEN password["A"][1] ELSE pw>>,
   txHash      |-> LastHash(hashes)]

\* the argument of peanut.getLinksFromTx
GetLinksFromTxArgs(link_Details, pw, hashes) ==
  [linkDetails |-> link_Details,
   passwords   |-> <<pw>>,
   txHash      |-> LastHash(hashes)]

\* the for-of loop from the iteration after `hashes`, with the trace so far:
\* convert, check the value, send and suspend; past the last transaction, call
\* getLinksFromTx with the last hash and suspend
RunLoop(r, txs, hashes, tr) ==
  LET i == Len(hashes) + 1
  IN IF i > Len(txs)
       THEN /\ trace' = [trace EXCEPT ![r] =
                   Append(tr, Call("getLinksFromTx",
                                   GetLinksFromTxArgs(linkDetails[r][1], password[r][1], hashes)))]
            /\ pc' = [pc EXCEPT ![r] = "awaitResolve"]
            /\ UNCHANGED responses
       ELSE \E value \in TxValues :
              IF ~BigNumberIsBigNumber(value)
                THEN /\ trace' = [trace EXCEPT ![r] = tr]
                     /\ Finish(r, CatchResponse(""))
                ELSE /\ trace' = [trace EXCEPT ![r] =
                            tr \o [j \in 1..Len(SendsStarted(txs, i)) |->
                                     Call("sendTransaction",
                                          [tx |-> SendsStarted(txs, i)[j], value |-> value])]]
                     /\ pc' = [pc EXCEPT ![r] = "awaitSend"]
                     /\ UNCHANGED responses

\* prepareDepositTxs resolves or rejects
PrepareReturn(r) ==
  /\ pc[r] = "awaitPrepare"
  /\ \/ \E prepared \in PrepareResults(r) :
          /\ preparedTransactions' = [preparedTransactions EXCEPT ![r] = prepared]
          /\ IF PreparationFailed(prepared)
               THEN /\ trace' = [trace EXCEPT ![r] = Append(@, Return("prepareDepositTxs", prepared))]
                    /\ Finish(r, PreparationFailedResponse)
               ELSE RunLoop(r, TxsOf(prepared), <<>>,
                            Append(trace[r], Return("prepareDepositTxs", prepared)))
     \/ /\ Rejected(r, "prepareDepositTxs")
        /\ UNCHANGED preparedTransactions
  /\ UNCHANGED <<req, linkDetails, password, transactionHashes, broadcast>>
  /\ UNCHANGED <<startupVars, limiterVars>>

\* sends under a lock: no send completes while another request awaits one
SendReturnExclusive(r) ==
  /\ pc[r] = "awaitSend"
  /\ \A o \in Reqs \ {r} : pc[o] # "awaitSend"
  /\ LET txs == TxsOf(preparedTransactions[r])
         i   == Len(transactionHashes[r]) + 1
         hash == Len(broadcast) + 1
     IN \/ /\ Encodable(AwaitedCall(r).arg.value)
           /\ broadcast' = Append(broadcast, txs[i])
           /\ transactionHashes' = [transactionHashes EXCEPT ![r] = Append(@, hash)]
           /\ RunLoop(r, txs, Append(transactionHashes[r], hash),
                      Append(trace[r], Return("sendTransaction", hash)))
        \/ /\ Rejected(r, "sendTransaction")
           /\ UNCHANGED <<broadcast, transactionHashes>>
  /\ UNCHANGED <<req, linkDetails, password, preparedTransactions>>
  /\ UNCHANGED <<startupVars, limiterVars>>

\* wallet.sendTransaction resolves with the hash of the broadcast transaction,
\* or rejects
SendReturn(r) ==
  /\ pc[r] = "awaitSend"
  /\ LET txs == TxsOf(preparedTransactions[r])
         i   == Len(transactionHashes[r]) + 1
         hash == Len(broadcast) + 1
     IN \/ /\ Encodable(AwaitedCall(r).arg.value)
           /\ broadcast' = Append(broadcast, txs[i])
           /\ transactionHashes' = [transactionHashes EXCEPT ![r] = Append(@, hash)]
           /\ RunLoop(r, txs, Append(transactionHashes[r], hash),
                      Append(trace[r], Return("sendTransaction", hash)))
        \/ /\ Rejected(r, "sendTransaction")
           /\ UNCHANGED <<broadcast, transactionHashes>>
  /\ UNCHANGED <<req, linkDetails, password, preparedTransactions>>
  /\ UNCHANGED <<startupVars, limiterVars>>

\* getLinksFromTx resolves or rejects; the response is written
ResolveReturn(r) ==
  /\ pc[r] = "awaitResolve"
  /\ \/ \E result \in ResolveResults :
          /\ trace' = [trace EXCEPT ![r] = Append(@, Return("getLinksFromTx", result))]
          /\ IF result = NoValue
               THEN Finish(r, CatchResponse(""))
             ELSE IF NoLinks(result[1].links)
               THEN Finish(r, LinkResolutionFailedResponse)
             ELSE Finish(r, SuccessResponse(GeneratedLink(result[1].links),
                                            transactionHashes[r]))
     \/ Rejected(r, "getLinksFromTx")
  /\ UNCHANGED <<req, linkDetails, password, preparedTransactions, transactionHashes,
                 broadcast>>
  /\ UNCHANGED <<startupVars, limiterVars>>

Next ==
  \/ LoadModule
  \/ InitializeWallet
  \/ \E r \in Reqs :
    \/ ExpressJson(r)
    \/ VerifyApiKey(r)
    \/ CreateLinkStart(r)
    \/ RandomStringReturn(r)
    \/ PrepareReturn(r)
    \/ SendReturn(r)
    \/ ResolveReturn(r)

Spec == Init /\ [][Next]_vars


\* ------------------------------------------- the conversion, on many amounts
DigitSeqs ==
  { ds \in UNION { [1..k -> 0..9] : k \in 1..MaxDigits } :
      ds[1] # 0 /\ ds[Len(ds)] # 0 }

\* positive numbers 0.d1..dk * 10^n
ConvAmounts ==
  { [sign |-> 1, digits |-> ds, n |-> n] : ds \in DigitSeqs, n \in (-MaxExp)..(MaxExp + 12) }

\* request A has passed the API key check with a positive amount in its body
InitConv ==
  /\ pc = [r \in Reqs |-> IF r = "A" THEN "createLink" ELSE "idle"]
  /\ \E a \in ConvAmounts :
       req = [r \in Reqs |->
                IF r = "A"
                  THEN Some([headers |-> [xApiKey |-> Some(API_KEY)],
                             body |-> [malformed |-> FALSE, amount |-> JsNumber(a),
                                       tokenType |-> JsUndefined]])
                  ELSE NoValue]
  /\ linkDetails = [r \in Reqs |-> NoValue]
  /\ password = [r \in Reqs |-> NoValue]
  /\ preparedTransactions = [r \in Reqs |-> NoValue]
  /\ transactionHashes = [r \in Reqs |-> <<>>]
  /\ trace = [r \in Reqs |-> <<>>]
  /\ responses = [r \in Reqs |-> <<>>]
  /\ broadcast = <<>>
  /\ Listening
  /\ hits = 1
  /\ healthResponse = NoValue

NextConv == CreateLinkStart("A")

SpecConv == InitConv /\ [][NextConv]_vars

\* ------------------------------- the limiter, over a window of many requests
\* the process is listening and no request has arrived in the window
InitLimiter ==
  /\ NoRequests
  /\ Listening
  /\ hits = 0
  /\ healthResponse = NoValue

\* GET /health requests, the window's end, and one POST /create-link
NextLimiter ==
  \/ Health
  \/ WindowReset
  \/ ExpressJson("A")
  \/ VerifyApiKey("A")
  \/ CreateLinkStart("A")
  \/ RandomStringReturn("A")
  \/ PrepareReturn("A")
  \/ SendReturn("A")
  \/ ResolveReturn("A")

SpecLimiter == InitLimiter /\ [][NextLimiter]_vars

\* ------------------- two accepted requests whose external calls all come back
\* both requests have passed the limiter and the key check with a body that
\* validation accepts
InitFair ==
  /\ pc = [r \in Reqs |-> "createLink"]
  /\ req = [r \in Reqs |->
              Some([headers |-> [xApiKey |-> Some(API_KEY)],
                    body |-> [malformed |-> FALSE, amount |-> JsNumber(OnePointFive),
                              tokenType |-> JsUndefined]])]
  /\ linkDetails = [r \in Reqs |-> NoValue]
  /\ password = [r \in Reqs |-> NoValue]
  /\ preparedTransactions = [r \in Reqs |-> NoValue]
  /\ transactionHashes = [r \in Reqs |-> <<>>]
  /\ trace = [r \in Reqs |-> <<>>]
  /\ responses = [r \in Reqs |-> <<>>]
  /\ broadcast = <<>>
  /\ Listening
  /\ hits = 2
  /\ healthResponse = NoValue

\* a step of the handler for r
HandlerStep(r) ==
  \/ CreateLinkStart(r)
  \/ RandomStringReturn(r)
  \/ PrepareReturn(r)
  \/ SendReturn(r)
  \/ ResolveReturn(r)

NextFair == \E r \in Reqs : HandlerStep(r)

\* the handler runs when it is called, and every awaited external call
\* eventually resolves or rejects
Fairness ==
  \A r \in Reqs :
    /\ WF_vars(CreateLinkStart(r))
    /\ WF_vars(RandomStringReturn(r))
    /\ WF_vars(PrepareReturn(r))
    /\ WF_vars(SendReturn(r))
    /\ WF_vars(ResolveReturn(r))

SpecFair == InitFair /\ [][NextFair]_vars /\ Fairness

\* ------------------------------------------------------ reading the traces
IsCall(e, op) == e.ev = "call" /\ e.op = op

IsReturn(e, op) == e.ev = "return" /\ e.op = op

IsThrow(e, op) == e.ev = "throw" /\ e.op = op

CallsOf(r, op) == SelectSeq(trace[r], LAMBDA e : IsCall(e, op))

ReturnsOf(r, op) == SelectSeq(trace[r], LAMBDA e : IsReturn(e, op))

ThrowsOf(r, op) == SelectSeq(trace[r], LAMBDA e : IsThrow(e, op))

\* the transactions of the calls of sendTransaction, in call order
SentTxs(r) ==
  LET calls == CallsOf(r, "sendTransaction")
  IN [i \in 1..Len(calls) |-> calls[i].arg.tx]

\* the hashes sendTransaction returned, in return order
ReturnedHashes(r) ==
  LET returns == ReturnsOf(r, "sendTransaction")
  IN [i \in 1..Len(returns) |-> returns[i].val]

\* prepare returned a non-empty list of unsigned transactions to r
PrepareReturnedTxs(r) ==
  LET returns == ReturnsOf(r, "prepareDepositTxs")
  IN /\ Len(returns) = 1
     /\ returns[1].val # NoValue
     /\ returns[1].val[1].unsignedTxs # NoValue
     /\ Len(returns[1].val[1].unsignedTxs[1]) >= 1

\* the list prepare returned
PreparedTxs(r) == ReturnsOf(r, "prepareDepositTxs")[1].val[1].unsignedTxs[1]

\* the positions of the trace before p that hold an event of this kind
Before(t, p, ev, op) == {q \in 1..(p - 1) : t[q].ev = ev /\ t[q].op = op}

IsPrefix(s, t) == Len(s) <= Len(t) /\ \A i \in 1..Len(s) : s[i] = t[i]

Received(r) == req[r] # NoValue

Authorized(r) == Received(r) /\ ~req[r][1].body.malformed /\ req[r][1].headers.xApiKey = Some(API_KEY)

Handled(r) == Authorized(r) /\ pc[r] \notin {"idle", "verifyApiKey", "createLink"}


\* ----------------------------------------------------------------- C9
\* the amount scales to a whole number of base units at this precision
ScalesToInteger(x, d) == x.n - Len(x.digits) + d >= 0

\* the decimal digits of x * 10^d, by shifting the decimal point
ExactScaling(x, d) == DigitsToChars(x.digits) \o Zeros(x.n - Len(x.digits) + d)

PositiveAmount(r) ==
  /\ req[r][1].body.amount.type = "number"
  /\ req[r][1].body.amount.num.sign = 1

\* body.tokenType is omitted or one of 0, 1, 2, 3
TokenTypeAccepted(r) ==
  \/ req[r][1].body.tokenType = JsUndefined
  \/ \E i \in 0..3 : req[r][1].body.tokenType = JsNumber(IntNum(i))

\* C9: for every positive amount that validation accepts and that is a whole
\* number of base units at precision 9, once the handler has built LinkDetails
\* the conversion has not failed and tokenAmount is the exact scaling of the
\* amount by 10^9.
C9_ExactConversion ==
  \A r \in Reqs :
    (Handled(r) /\ PositiveAmount(r) /\ TokenTypeAccepted(r)
       /\ ScalesToInteger(req[r][1].body.amount.num, tokenDecimals))
      => /\ linkDetails[r] # NoValue
         /\ linkDetails[r][1].tokenAmount
              = ExactScaling(req[r][1].body.amount.num, tokenDecimals)

\* Where the conversion is exact: amounts that toString writes in decimal
\* notation (1e-6 <= a < 1e21) with at most 9 fractional digits.
C9_ExactInDecimalNotation ==
  \A r \in Reqs :
    (Handled(r) /\ PositiveAmount(r) /\ TokenTypeAccepted(r)
       /\ ScalesToInteger(req[r][1].body.amount.num, tokenDecimals)
       /\ -ExpNotationBelow < req[r][1].body.amount.num.n
       /\ req[r][1].body.amount.num.n <= ExpNotationAbove)
      => /\ linkDetails[r] # NoValue
         /\ linkDetails[r][1].tokenAmount
              = ExactScaling(req[r][1].body.amount.num, tokenDecimals)

\* 1.5 has been converted to 1500000000
C9_OnePointFiveConverted ==
  \E r \in Reqs :
    /\ Handled(r)
    /\ req[r][1].body.amount = JsNumber(OnePointFive)
    /\ linkDetails[r] # NoValue
    /\ linkDetails[r][1].tokenAmount = <<"1", "5", "0", "0", "0", "0", "0", "0", "0", "0">>


\* ----------------------------------------------------------------- C1
\* C1: the calls of sendTransaction are always the first transactions prepare
\* returned, in prepare's order; getLinksFromTx is called only after every one
\* of the N transactions was sent and its send returned, once, with the hash
\* the Nth send returned; and once all N sends have returned it has been called.
C1_SendAllThenResolveLast ==
  \A r \in Reqs :
    PrepareReturnedTxs(r) =>
      LET txs     == PreparedTxs(r)
          N       == Len(txs)
          sent    == SentTxs(r)
          hashes  == ReturnedHashes(r)
          resolve == CallsOf(r, "getLinksFromTx")
      IN /\ IsPrefix(sent, txs)
         /\ Len(resolve) <= 1
         /\ Len(resolve) = 1 =>
              /\ sent = txs
              /\ Len(hashes) = N
              /\ resolve[1].arg.txHash = Some(hashes[N])
              /\ \A p \in 1..Len(trace[r]) :
                   IsCall(trace[r][p], "getLinksFromTx") =>
                     Cardinality(Before(trace[r], p, "return", "sendTransaction")) = N
         /\ Len(hashes) = N => Len(resolve) = 1

\* two transactions were prepared, both were sent and getLinksFromTx was called
C1_Witness ==
  \E r \in Reqs :
    /\ PrepareReturnedTxs(r)
    /\ Len(PreparedTxs(r)) = 2
    /\ Len(ReturnedHashes(r)) = 2
    /\ Len(CallsOf(r, "getLinksFromTx")) = 1

\* ----------------------------------------------------------------- C2
\* C2: when a call of sendTransaction starts, every earlier call of
\* sendTransaction of the same request has returned its hash: at most one send
\* of a request is in flight.
C2_SendsSequential ==
  \A r \in Reqs :
    /\ \A p \in 1..Len(trace[r]) :
         IsCall(trace[r][p], "sendTransaction") =>
           Cardinality(Before(trace[r], p, "call", "sendTransaction"))
             = Cardinality(Before(trace[r], p, "return", "sendTransaction"))
    /\ Len(CallsOf(r, "sendTransaction"))
         <= Len(ReturnsOf(r, "sendTransaction")) + Len(ThrowsOf(r, "sendTransaction")) + 1

\* the second send of a request is in flight
C2_Witness ==
  \E r \in Reqs :
    /\ pc[r] = "awaitSend"
    /\ Len(CallsOf(r, "sendTransaction")) = 2
    /\ Len(ReturnsOf(r, "sendTransaction")) = 1

\* ----------------------------------------------------------------- C3
\* the amount is not a number, or is zero, or is negative
NonNumericZeroOrNegative(amount) ==
  \/ amount.type # "number"
  \/ amount.num.sign = 0
  \/ amount.num.sign = -1

\* C3: a request with such an amount never makes an external call, and once
\* the handler has run its only response is 400 with the amount message.
C3_InvalidAmountNoExternalCall ==
  \A r \in Reqs :
    (Authorized(r) /\ NonNumericZeroOrNegative(req[r][1].body.amount)) =>
      /\ trace[r] = <<>>
      /\ Handled(r) =>
           /\ pc[r] = "done"
           /\ responses[r] =
                <<Json(400, [error |-> "Invalid or missing \"amount\" in request body."])>>

\* a request with amount 0 was answered 400
C3_Witness ==
  \E r \in Reqs :
    /\ Handled(r)
    /\ req[r][1].body.amount = JsNumber(Zero)
    /\ Len(responses[r]) = 1
    /\ responses[r][1].status = 400

\* ----------------------------------------------------------------- C4
\* C4: a request whose tokenType is present and not one of 0, 1, 2, 3 never
\* makes an external call and is answered 400, with the tokenType message when
\* its amount is valid; and two requests that differ only in that one omits
\* tokenType and the other gives 0 pass validation alike, build the same
\* LinkDetails and hand the same LinkDetails to prepare.
C4_TokenTypeValidatedAndDefaulted ==
  /\ \A r \in Reqs :
       (Authorized(r) /\ ~TokenTypeAccepted(r)) =>
         /\ trace[r] = <<>>
         /\ Handled(r) =>
              /\ pc[r] = "done"
              /\ Len(responses[r]) = 1
              /\ responses[r][1].status = 400
              /\ ~NonNumericZeroOrNegative(req[r][1].body.amount) =>
                   responses[r][1].body =
                     [error |-> "Invalid \"tokenType\". Valid types are 0, 1, 2, 3."]
  /\ \A r \in Reqs :
       (Handled(r) /\ req[r][1].body.tokenType = JsUndefined /\ linkDetails[r] # NoValue)
         => linkDetails[r][1].tokenType = JsNumber(IntNum(0))
  /\ \A r1 \in Reqs, r2 \in Reqs :
       ( /\ Handled(r1) /\ Handled(r2)
         /\ req[r1][1].body.amount = req[r2][1].body.amount
         /\ req[r1][1].body.tokenType = JsUndefined
         /\ req[r2][1].body.tokenType = JsNumber(IntNum(0)) )
       => /\ linkDetails[r1] = linkDetails[r2]
          /\ (trace[r1] = <<>>) <=> (trace[r2] = <<>>)
          /\ (trace[r1] = <<>>) => responses[r1] = responses[r2]
          /\ \A i \in 1..Len(CallsOf(r1, "prepareDepositTxs")),
                j \in 1..Len(CallsOf(r2, "prepareDepositTxs")) :
               CallsOf(r1, "prepareDepositTxs")[i].arg.linkDetails
                 = CallsOf(r2, "prepareDepositTxs")[j].arg.linkDetails

\* one request omitted tokenType, the other gave 0 with the same amount, and
\* both called prepare
C4_Witness ==
  \E r1 \in Reqs, r2 \in Reqs :
    /\ Handled(r1) /\ Handled(r2)
    /\ req[r1][1].body.tokenType = JsUndefined
    /\ req[r2][1].body.tokenType = JsNumber(IntNum(0))
    /\ req[r1][1].body.amount = req[r2][1].body.amount
    /\ Len(CallsOf(r1, "prepareDepositTxs")) = 1
    /\ Len(CallsOf(r2, "prepareDepositTxs")) = 1


\* ----------------------------------------------------------------- C5
\* prepare returned nothing, or no list, or an empty list, to r
PrepareReturnedNothing(r) ==
  /\ Len(ReturnsOf(r, "prepareDepositTxs")) = 1
  /\ \/ ReturnsOf(r, "prepareDepositTxs")[1].val = NoValue
     \/ ReturnsOf(r, "prepareDepositTxs")[1].val[1].unsignedTxs = NoValue
     \/ ReturnsOf(r, "prepareDepositTxs")[1].val[1].unsignedTxs[1] = <<>>

\* C5: when prepare returns an absent result or an empty list, the request
\* ends with the one response 500 'Failed to prepare deposit transactions.'
\* and neither sendTransaction nor getLinksFromTx is ever called for it.
C5_PreparationFailedNoSend ==
  \A r \in Reqs :
    PrepareReturnedNothing(r) =>
      /\ pc[r] = "done"
      /\ responses[r] = <<Json(500, [error |-> "Failed to prepare deposit transactions."])>>
      /\ CallsOf(r, "sendTransaction") = <<>>
      /\ CallsOf(r, "getLinksFromTx") = <<>>
      /\ broadcast = SelectSeq(broadcast, LAMBDA tx : tx.req # r)

\* prepare returned an empty list of unsigned transactions
C5_Witness ==
  \E r \in Reqs :
    /\ Len(ReturnsOf(r, "prepareDepositTxs")) = 1
    /\ ReturnsOf(r, "prepareDepositTxs")[1].val = Some([unsignedTxs |-> Some(<<>>)])
    /\ pc[r] = "done"

\* ----------------------------------------------------------------- C6
\* C6: after a send of r was rejected, as the i-th of N: the i-1 earlier
\* transactions are on the broadcast record under the hashes their sends
\* returned, exactly i sends were started and none after the failed one,
\* getLinksFromTx was not called, and the one response is an error without
\* a link.
C6_SendFailureNoRollbackNoLink ==
  \A r \in Reqs :
    Len(ThrowsOf(r, "sendTransaction")) > 0 =>
      LET i == Len(ReturnedHashes(r)) + 1
      IN /\ PrepareReturnedTxs(r)
         /\ i <= Len(PreparedTxs(r))
         /\ SentTxs(r) = SubSeq(PreparedTxs(r), 1, i)
         /\ \A j \in 1..(i - 1) :
              /\ ReturnedHashes(r)[j] \in 1..Len(broadcast)
              /\ broadcast[ReturnedHashes(r)[j]] = PreparedTxs(r)[j]
         /\ SelectSeq(broadcast, LAMBDA tx : tx.req = r) = SubSeq(PreparedTxs(r), 1, i - 1)
         /\ CallsOf(r, "getLinksFromTx") = <<>>
         /\ pc[r] = "done"
         /\ Len(responses[r]) = 1
         /\ responses[r][1].status \in {400, 500}
         /\ DOMAIN responses[r][1].body = {"error"}

\* C6 (no rollback, as a step property): no step removes or reorders a
\* transaction on the broadcast record.
C6_BroadcastOnlyGrows == [][IsPrefix(broadcast, broadcast')]_vars

\* the second of two sends was rejected after the first was broadcast
C6_Witness ==
  \E r \in Reqs :
    /\ Len(ThrowsOf(r, "sendTransaction")) = 1
    /\ Len(ReturnedHashes(r)) = 1
    /\ PrepareReturnedTxs(r)
    /\ Len(PreparedTxs(r)) = 2
    /\ \E h \in 1..Len(broadcast) : broadcast[h] = PreparedTxs(r)[1]

\* ----------------------------------------------------------------- C7
\* the signer rejected the only prepared transaction for insufficient funds
InsufficientFundsOnOnlyTx(r) ==
  /\ PrepareReturnedTxs(r)
  /\ Len(PreparedTxs(r)) = 1
  /\ ThrowsOf(r, "sendTransaction") = <<Throw("sendTransaction", "INSUFFICIENT_FUNDS")>>

\* C7: then the one response is 400 with the insufficient-funds message and
\* getLinksFromTx is not called.
C7_InsufficientFunds400 ==
  \A r \in Reqs :
    InsufficientFundsOnOnlyTx(r) =>
      /\ responses[r] =
           <<Json(400, [error |-> "Insufficient funds in the wallet to complete the transaction."])>>
      /\ CallsOf(r, "getLinksFromTx") = <<>>
      /\ pc[r] = "done"

C7_Witness == \E r \in Reqs : InsufficientFundsOnOnlyTx(r) /\ pc[r] = "done"

\* ----------------------------------------------------------------- C8
\* C8: a request whose x-api-key header is missing or is not the configured
\* key never makes an external call and, once answered, has the one response
\* 401, whatever its body.
C8_UnauthorizedAlways401 ==
  \A r \in Reqs :
    (Received(r) /\ req[r][1].headers.xApiKey # Some(API_KEY)) =>
      /\ trace[r] = <<>>
      /\ linkDetails[r] = NoValue
      /\ pc[r] \in {"verifyApiKey", "done"}
      /\ pc[r] = "done" =>
           responses[r] = <<Json(401, [error |-> "Unauthorized: Invalid or missing API key."])>>

\* What the code does: the 401 holds for the requests whose body parsed.
C8_UnauthorizedParsedBody401 ==
  \A r \in Reqs :
    (Received(r) /\ req[r][1].headers.xApiKey # Some(API_KEY) /\ ~req[r][1].body.malformed) =>
      /\ trace[r] = <<>>
      /\ linkDetails[r] = NoValue
      /\ pc[r] \in {"verifyApiKey", "done"}
      /\ pc[r] = "done" =>
           responses[r] = <<Json(401, [error |-> "Unauthorized: Invalid or missing API key."])>>

\* ----------------------------------------------------------------- C10
\* C10: a 200 response is the only response of its request; its txHashes are
\* the hashes the sends returned, one per prepared transaction and in
\* submission order (the i-th is the hash under which the i-th prepared
\* transaction was broadcast); the last of them is the hash given to
\* getLinksFromTx; and its link is the first link getLinksFromTx returned.
C10_SuccessResponse ==
  \A r \in Reqs :
    (\E k \in 1..Len(responses[r]) : responses[r][k].status = 200) =>
      LET body    == responses[r][1].body
          resolve == CallsOf(r, "getLinksFromTx")
          result  == ReturnsOf(r, "getLinksFromTx")
      IN /\ Len(responses[r]) = 1
         /\ DOMAIN body = {"link", "txHashes"}
         /\ PrepareReturnedTxs(r)
         /\ Len(body.txHashes) = Len(PreparedTxs(r))
         /\ body.txHashes = ReturnedHashes(r)
         /\ \A i \in 1..Len(body.txHashes) :
              /\ body.txHashes[i] \in 1..Len(broadcast)
              /\ broadcast[body.txHashes[i]] = PreparedTxs(r)[i]
         /\ Len(resolve) = 1
         /\ resolve[1].arg.txHash = Some(body.txHashes[Len(body.txHashes)])
         /\ Len(result) = 1
         /\ result[1].val[1].links # NoValue
         /\ body.link = result[1].val[1].links[1][1]

\* a request with two transactions succeeded, and getLinksFromTx had returned
\* two links
C10_Witness ==
  \E r \in Reqs :
    /\ Len(responses[r]) = 1
    /\ responses[r][1].status = 200
    /\ Len(responses[r][1].body.txHashes) = 2
    /\ Len(ReturnsOf(r, "getLinksFromTx")[1].val[1].links[1]) = 2


\* ----------------------------------------------------------------- C11
\* getLinksFromTx returned to r an object with no link: links absent or empty
ResolveReturnedNoLink(r) ==
  /\ Len(ReturnsOf(r, "getLinksFromTx")) = 1
  /\ ReturnsOf(r, "getLinksFromTx")[1].val # NoValue
  /\ \/ ReturnsOf(r, "getLinksFromTx")[1].val[1].links = NoValue
     \/ ReturnsOf(r, "getLinksFromTx")[1].val[1].links[1] = <<>>

\* C11: when getLinksFromTx returns no link after every transaction was
\* broadcast, the one response is 500 'Failed to retrieve links from
\* transaction.', it carries no link, and every transaction of the request is
\* still on the broadcast record under the hash its send returned.
C11_LinkResolutionFailed ==
  \A r \in Reqs :
    ResolveReturnedNoLink(r) =>
      /\ pc[r] = "done"
      /\ responses[r] = <<Json(500, [error |-> "Failed to retrieve links from transaction."])>>
      /\ PrepareReturnedTxs(r)
      /\ Len(ReturnedHashes(r)) = Len(PreparedTxs(r))
      /\ \A j \in 1..Len(PreparedTxs(r)) :
           /\ ReturnedHashes(r)[j] \in 1..Len(broadcast)
           /\ broadcast[ReturnedHashes(r)[j]] = PreparedTxs(r)[j]

\* two transactions were broadcast and getLinksFromTx returned an empty list
C11_Witness ==
  \E r \in Reqs :
    /\ ResolveReturnedNoLink(r)
    /\ ReturnsOf(r, "getLinksFromTx")[1].val[1].links = Some(<<>>)
    /\ Len(ReturnedHashes(r)) = 2
    /\ pc[r] = "done"

\* ----------------------------------------------------------------- C12
\* the send r awaits can be broadcast in the next step
CanBroadcast(r) ==
  ENABLED (SendReturn(r) /\ Len(broadcast') = Len(broadcast) + 1)

\* C12: nothing makes a request wait for another: whenever a request awaits
\* sendTransaction, the send can complete next, and broadcast its transaction
\* unless its value cannot be encoded, whatever the other request is doing,
\* also while the other request awaits a send of its own or is between two
\* of its sends.
C12_SendsNotSynchronized ==
  \A r \in Reqs :
    pc[r] = "awaitSend" =>
      /\ ENABLED SendReturn(r)
      /\ Encodable(AwaitedCall(r).arg.value) => CanBroadcast(r)

\* a transaction of B was broadcast between two consecutive transactions of A
C12_Witness ==
  \E i \in 1..Len(broadcast) :
    /\ i + 2 <= Len(broadcast)
    /\ broadcast[i] = [req |-> "A", idx |-> 1]
    /\ broadcast[i + 1].req = "B"
    /\ broadcast[i + 2] = [req |-> "A", idx |-> 2]
    /\ pc["B"] = "awaitSend"

\* ----------------------------------------------------------------- C13
\* the amount, tokenType, unauthorized, preparation, resolution,
\* insufficient-funds, generic and internal-server-error messages
ListedMessages ==
  { "Invalid or missing \"amount\" in request body.",
    "Invalid \"tokenType\". Valid types are 0, 1, 2, 3.",
    "Unauthorized: Invalid or missing API key.",
    "Failed to prepare deposit transactions.",
    "Failed to retrieve links from transaction.",
    "Insufficient funds in the wallet to complete the transaction.",
    "Failed to create Peanut Link.",
    "Internal server error." }

\* the responses written so far, to POST /create-link and to GET /health
IsErrorResponse(resp) == resp.status >= 400

HasListedMessage(resp) ==
  /\ DOMAIN resp.body = {"error"}
  /\ resp.body.error \in ListedMessages

\* the text of the errors thrown to r
ThrownTexts(r) == {trace[r][p].code : p \in {q \in 1..Len(trace[r]) : trace[r][q].ev = "throw"}}

\* C13 as stated: every error response body is one of the listed messages.
C13_ErrorBodiesListed ==
  \A r \in Reqs : \A i \in 1..Len(responses[r]) :
    IsErrorResponse(responses[r][i]) => HasListedMessage(responses[r][i])

\* C13: every error response body is one of the listed messages or the
\* limiter's fixed throttling message, and no response holds the text of an
\* error thrown to its request.
C13_ErrorBodiesFixed ==
  /\ \A r \in Reqs : \A i \in 1..Len(responses[r]) :
       /\ IsErrorResponse(responses[r][i]) =>
            \/ HasListedMessage(responses[r][i])
            \/ responses[r][i] = TooManyRequestsResponse
       /\ \A f \in DOMAIN responses[r][i].body :
            responses[r][i].body[f] \notin ThrownTexts(r)
  /\ \A i \in 1..Len(healthResponse) :
       IsErrorResponse(healthResponse[i]) => healthResponse[i] = TooManyRequestsResponse

\* a rejected send with a provider error was answered with the generic message
C13_Witness ==
  \E r \in Reqs :
    /\ ThrowsOf(r, "sendTransaction") = <<Throw("sendTransaction", "NETWORK_ERROR")>>
    /\ responses[r] = <<Json(500, [error |-> "Failed to create Peanut Link."])>>

\* ----------------------------------------------------------------- C14
\* the recovery phrase is absent or is not exactly 12 words
PhraseAbsentOrNot12Words == MNEMONIC.words = 0 \/ MNEMONIC.words # 12

\* r was answered with an error
Failed(r) == Len(responses[r]) >= 1 /\ responses[r][1].status >= 400

\* C14: a process whose recovery phrase is absent or not exactly 12 words, or
\* whose wallet cannot be created from it, never listens and never receives a
\* request; a listening process has created exactly one wallet, before it
\* listened; requests are received only by a listening process, and after a
\* request failed the process still listens with that one wallet and accepts
\* the next request.
C14_ExitAtStartupElseOneWallet ==
  /\ (PhraseAbsentOrNot12Words \/ ~MNEMONIC.valid) =>
       /\ server \in {"loading", "initializeWallet", "exited"}
       /\ wallets = 0
  /\ PhraseAbsentOrNot12Words => server \in {"loading", "exited"}
  /\ server = "listening" <=> wallets = 1
  /\ wallets \in {0, 1}
  /\ server # "listening" => NoRequests
  /\ \A r \in Reqs :
       Failed(r) =>
         /\ server = "listening"
         /\ wallets = 1
         /\ \A o \in Reqs : pc[o] = "idle" => ENABLED ExpressJson(o)

\* a send of A was rejected, A was answered 500 after one broadcast, and the
\* process is listening with its one wallet for B
C14_Witness ==
  /\ Failed("A")
  /\ Len(ThrowsOf("A", "sendTransaction")) = 1
  /\ Len(ReturnedHashes("A")) = 1
  /\ pc["B"] = "idle"
  /\ server = "listening"
  /\ MNEMONIC.words = 12

\* ----------------------------------------------------------------- C15
\* a POST /create-link of A arrives in this step
ArrivesA == pc["A"] = "idle" /\ pc'["A"] # "idle"

\* the body of the request of A that arrives in this step parses as JSON
ArrivesParsedA == ArrivesA /\ ~req'["A"][1].body.malformed

\* a GET /health is answered in this step
HealthStep == hits' = hits + 1 /\ UNCHANGED pc

\* A is answered by the limiter alone: no middleware after it and no handler ran
ThrottledA ==
  /\ responses'["A"] = <<TooManyRequestsResponse>>
  /\ pc'["A"] = "done"
  /\ trace'["A"] = <<>>

\* C15 as stated: in every step, a request that arrives when the window has
\* already counted 100 requests is throttled and reaches no handler, a request
\* that arrives before that is not throttled, and the requests to both
\* routes, /create-link and /health, are counted.
C15_HundredPerWindow ==
  [][ /\ (ArrivesA /\ hits >= RateMax) => ThrottledA
      /\ (ArrivesA /\ hits < RateMax) => responses'["A"] # <<TooManyRequestsResponse>>
      /\ (HealthStep /\ hits >= RateMax) => healthResponse' = Some(TooManyRequestsResponse)
      /\ (HealthStep /\ hits < RateMax) => healthResponse' = Some(HealthResponse)
      /\ (ArrivesParsedA \/ healthResponse' # healthResponse) => hits' = hits + 1
    ]_vars

\* What holds: the same for the requests whose body parses; a request whose
\* body does not parse is answered by the global error handler and is neither
\* counted nor throttled.
C15_HundredParsedPerWindow ==
  [][ /\ (ArrivesParsedA /\ hits >= RateMax) => ThrottledA
      /\ (ArrivesParsedA /\ hits < RateMax) => pc'["A"] = "verifyApiKey"
      /\ (HealthStep /\ hits >= RateMax) => healthResponse' = Some(TooManyRequestsResponse)
      /\ (HealthStep /\ hits < RateMax) => healthResponse' = Some(HealthResponse)
      /\ (ArrivesParsedA \/ healthResponse' # healthResponse) => hits' = hits + 1
      /\ (ArrivesA /\ ~ArrivesParsedA) =>
           /\ hits' = hits
           /\ responses'["A"] = <<GlobalErrorResponse>>
    ]_vars

\* A throttled request stays as the limiter left it.
C15_ThrottledReachNoHandler ==
  responses["A"] = <<TooManyRequestsResponse>> => pc["A"] = "done" /\ trace["A"] = <<>>

\* the 101st request of the window, a POST /create-link, was throttled
C15_Witness101stThrottled ==
  /\ hits = RateMax + 1
  /\ responses["A"] = <<TooManyRequestsResponse>>

\* ----------------------------------------------------------------- C16
\* the loop of r stopped at the check of a converted transaction's value:
\* prepare returned transactions, the handler is done, no call threw and
\* getLinksFromTx was never called
ValueCheckFailed(r) ==
  /\ PrepareReturnedTxs(r)
  /\ pc[r] = "done"
  /\ \A p \in 1..Len(trace[r]) : trace[r][p].ev # "throw"
  /\ Len(CallsOf(r, "getLinksFromTx")) = 0

\* C16 as stated: every transaction handed to wallet.sendTransaction has a
\* value that is a non-negative integer amount.
C16_SentValuesNonNegative ==
  \A r \in Reqs : \A i \in 1..Len(CallsOf(r, "sendTransaction")) :
    CallsOf(r, "sendTransaction")[i].arg.value = "BigNumber"

\* C16: every transaction handed to wallet.sendTransaction has a value that
\* is a BigNumber, of either sign; when the value of a converted transaction
\* is not a BigNumber, that transaction and the ones after it are never
\* handed to wallet.sendTransaction and the request is answered 500.
C16_SentValuesAreBigNumbers ==
  \A r \in Reqs :
    /\ \A i \in 1..Len(CallsOf(r, "sendTransaction")) :
         CallsOf(r, "sendTransaction")[i].arg.value \in {"BigNumber", "negative BigNumber"}
    /\ ValueCheckFailed(r) =>
         /\ Len(CallsOf(r, "sendTransaction")) = Len(ReturnedHashes(r))
         /\ Len(CallsOf(r, "sendTransaction")) < Len(PreparedTxs(r))
         /\ IsPrefix(SentTxs(r), PreparedTxs(r))
         /\ responses[r] = <<Json(500, [error |-> "Failed to create Peanut Link."])>>

\* the first of two transactions was broadcast, the value of the second was
\* not a BigNumber, and the second was not sent
C16_Witness ==
  \E r \in Reqs :
    /\ ValueCheckFailed(r)
    /\ Len(PreparedTxs(r)) = 2
    /\ Len(CallsOf(r, "sendTransaction")) = 1
    /\ Len(ReturnedHashes(r)) = 1

\* ----------------------------------------------------------------- C17
\* validation accepted the request of r and LinkDetails was built
Validated(r) == linkDetails[r] # NoValue

\* C17: a request calls getRandomString exactly once when validation has
\* accepted it and never otherwise, as its first external call; prepare is
\* called only after getRandomString returned, with the returned secret as
\* its one password and with the LinkDetails built from the request;
\* getLinksFromTx is called with the same one password and the same
\* LinkDetails as prepare, and LinkDetails is still what it was.
C17_OneSecretSameLinkDetails ==
  \A r \in Reqs :
    /\ Len(CallsOf(r, "getRandomString")) = (IF Validated(r) THEN 1 ELSE 0)
    /\ Len(trace[r]) >= 1 => IsCall(trace[r][1], "getRandomString")
    /\ Len(CallsOf(r, "prepareDepositTxs")) <= 1
    /\ Len(CallsOf(r, "getLinksFromTx")) <= 1
    /\ \A p \in 1..Len(trace[r]) :
         IsCall(trace[r][p], "prepareDepositTxs") =>
           /\ p = 3
           /\ IsReturn(trace[r][2], "getRandomString")
           /\ trace[r][p].arg.passwords = <<trace[r][2].val>>
           /\ trace[r][p].arg.linkDetails = linkDetails[r][1]
    /\ \A p \in 1..Len(trace[r]) :
         IsCall(trace[r][p], "getLinksFromTx") =>
           /\ Len(CallsOf(r, "prepareDepositTxs")) = 1
           /\ trace[r][p].arg.passwords = CallsOf(r, "prepareDepositTxs")[1].arg.passwords
           /\ trace[r][p].arg.linkDetails = CallsOf(r, "prepareDepositTxs")[1].arg.linkDetails
           /\ trace[r][p].arg.linkDetails = linkDetails[r][1]

\* both requests called getLinksFromTx, each with a secret of its own
C17_Witness ==
  /\ Len(CallsOf("A", "getLinksFromTx")) = 1
  /\ Len(CallsOf("B", "getLinksFromTx")) = 1
  /\ CallsOf("A", "getLinksFromTx")[1].arg.passwords = <<"pw1">>
  /\ CallsOf("B", "getLinksFromTx")[1].arg.passwords = <<"pw2">>

\* ----------------------------------------------------------------- C18
\* the hashes of r are hashes of r's own broadcast transactions, in r's
\* prepare order
OwnHashes(r, hashes) ==
  Len(hashes) >= 1 =>
    /\ PrepareReturnedTxs(r)
    /\ LET txs == PreparedTxs(r)
       IN \A j \in 1..Len(hashes) :
            /\ hashes[j] \in 1..Len(broadcast)
            /\ broadcast[hashes[j]] = [req |-> r, idx |-> j]
            /\ broadcast[hashes[j]] = txs[j]

\* LinkDetails as the request of r determines it
OwnLinkDetails(r) ==
  [chainId       |-> CHAIN_ID,
   tokenAmount   |-> ToBaseUnits(req[r][1].body.amount.num).value,
   tokenType     |-> TokenTypeOrDefault(req[r][1].body.tokenType),
   tokenDecimals |-> tokenDecimals]

\* C18: in every reachable state, under every interleaving of the two
\* requests, the hashes a request holds and the txHashes of its response are
\* the hashes of its own broadcast transactions in its own prepare order, and
\* its call of getLinksFromTx carries its own last hash, the secret
\* getRandomString returned to it and the LinkDetails built from its own body.
C18_RequestsIsolated ==
  \A r \in Reqs :
    LET hashes == ReturnedHashes(r)
    IN /\ OwnHashes(r, transactionHashes[r])
       /\ transactionHashes[r] = hashes
       /\ \A i \in 1..Len(responses[r]) :
            responses[r][i].status = 200 =>
              /\ responses[r][i].body.txHashes = hashes
              /\ Len(hashes) = Len(PreparedTxs(r))
       /\ \A p \in 1..Len(trace[r]) :
            IsCall(trace[r][p], "getLinksFromTx") =>
              LET arg == trace[r][p].arg
                  n   == Len(PreparedTxs(r))
              IN /\ arg.txHash = Some(hashes[n])
                 /\ broadcast[arg.txHash[1]] = [req |-> r, idx |-> n]
                 /\ arg.passwords = <<trace[r][2].val>>
                 /\ IsReturn(trace[r][2], "getRandomString")
                 /\ arg.linkDetails = OwnLinkDetails(r)

\* A and B, with different amounts and different secrets, were both answered
\* 200 after their transactions were broadcast alternately
C18_Witness ==
  /\ Len(responses["A"]) = 1 /\ responses["A"][1].status = 200
  /\ Len(responses["B"]) = 1 /\ responses["B"][1].status = 200
  /\ responses["A"][1].body.txHashes = <<1, 3>>
  /\ responses["B"][1].body.txHashes = <<2, 4>>
  /\ password["A"] # password["B"]
  /\ linkDetails["A"] # linkDetails["B"]

\* ----------------------------------------------------------------- C19
\* C19: a request never has two responses; a request whose handling is over
\* has exactly one, on every path, and a request still being handled has
\* none; the status of a response to a request the limiter let through is
\* 200, 400, 401 or 500.
C19_ExactlyOneResponse ==
  \A r \in Reqs :
    /\ Len(responses[r]) <= 1
    /\ pc[r] = "done" <=> Len(responses[r]) = 1
    /\ \A i \in 1..Len(responses[r]) :
         responses[r][i] # TooManyRequestsResponse =>
           responses[r][i].status \in {200, 400, 401, 500}

\* A was answered once, 400, by validation; B was answered once, 500, after
\* getLinksFromTx threw
C19_Witness ==
  /\ pc["A"] = "done" /\ Len(responses["A"]) = 1
  /\ responses["A"][1].status = 400
  /\ trace["A"] = <<>>
  /\ pc["B"] = "done" /\ Len(responses["B"]) = 1
  /\ responses["B"][1].status = 500
  /\ Len(ThrowsOf("B", "getLinksFromTx")) = 1

\* ----------------------------------------------------------------- C20
\* r is suspended at an await of an external call
Awaiting(r) == pc[r] \in {"awaitRandomString", "awaitPrepare", "awaitSend", "awaitResolve"}

\* the external call r is suspended at
AwaitedOp(r) ==
  CASE pc[r] = "awaitRandomString" -> "getRandomString"
    [] pc[r] = "awaitPrepare"      -> "prepareDepositTxs"
    [] pc[r] = "awaitSend"         -> "sendTransaction"
    [] pc[r] = "awaitResolve"      -> "getLinksFromTx"

\* something of r changes in this step
Moves(r) ==
  \/ pc'[r] # pc[r]
  \/ trace'[r] # trace[r]
  \/ responses'[r] # responses[r]
  \/ transactionHashes'[r] # transactionHashes[r]
  \/ password'[r] # password[r]
  \/ preparedTransactions'[r] # preparedTransactions[r]

\* in this step the call r awaits resolves or rejects
AwaitedCallComesBack(r) ==
  /\ Len(trace'[r]) > Len(trace[r])
  /\ SubSeq(trace'[r], 1, Len(trace[r])) = trace[r]
  /\ trace'[r][Len(trace[r]) + 1].ev \in {"return", "throw"}
  /\ trace'[r][Len(trace[r]) + 1].op = AwaitedOp(r)

\* a suspended request moves only when the call it awaits comes back: nothing
\* else, no timer and no other request, answers it or runs a later step
NoTimeout == \A r \in Reqs : (Awaiting(r) /\ Moves(r)) => AwaitedCallComesBack(r)

\* while r is suspended, whatever it awaits, every other unfinished request
\* can take its next step
OthersProceed ==
  \A r \in Reqs : \A o \in Reqs \ {r} :
    (Awaiting(r) /\ pc[o] # "done") => ENABLED HandlerStep(o)

\* C20: when every external call eventually returns or throws, every request
\* is eventually answered, once; a suspended request is answered, and runs a
\* later step, only by the return or the throw of the call it awaits, so that
\* it stays suspended for as long as that call does not come back; and the
\* other request can proceed meanwhile.
C20_NoTimeout ==
  /\ \A r \in Reqs : (pc[r] # "done") ~> (pc[r] = "done" /\ Len(responses[r]) = 1)
  /\ [][NoTimeout]_vars
  /\ []OthersProceed

\* B was answered 200 while A is still suspended at prepareDepositTxs
C20_Witness ==
  /\ pc["A"] = "awaitPrepare"
  /\ pc["B"] = "done"
  /\ Len(responses["B"]) = 1
  /\ responses["B"][1].status = 200

====
